---- MODULE Spec2Model ----
(***************************************************************************)
(* REINFORCE exercise notebook (8_Reinforcement/8.3-EXE_Policy_Gradient):  *)
(* the discounted-return function compute_returns and the training cell    *)
(* that calls it.                                                          *)
(*                                                                         *)
(* Numbers.  numpy float64 values are modelled as exact rationals <<n, d>> *)
(* in lowest terms with d > 0.  For integer rewards and the discount       *)
(* factors 0, 1/2 and 1 float64 arithmetic is exact on the sizes used      *)
(* here, so the model and the code agree bit for bit; for 9/10 the model   *)
(* is the real-number value the float64 result approximates.               *)
(*                                                                         *)
(* Objects.  numpy arrays are mutable objects: heap maps a reference to    *)
(* the array's current contents and the notebook's global names hold       *)
(* references, so that aliasing and in-place writes are visible.           *)
(***************************************************************************)
EXTENDS Integers, Sequences, FiniteSets, TLC

VARIABLES
    heap,             \* reference -> contents of the live numpy arrays
    rewards,          \* notebook global `rewards`: reference of the reward array
    discount_factor,  \* notebook global `discount_factor`
    returns,          \* notebook global `returns`: reference of the result, 0 = unbound
    calls,            \* number of compute_returns calls made so far
    memo,             \* result of the first call on the kept reward sequence
    last,             \* record of the most recent compute_returns call
    pc,               \* position of the training cell
    i,                \* training cell: episode index of `for i in range(num_episodes)`
    j,                \* training cell: step index of `for j in range(rollout_limit)`
    rollout,          \* training cell: list of (s, a, r) triples
    s,                \* training cell: current observation
    a,                \* training cell: action chosen for the next step
    env,              \* the gym environment object
    theta,            \* policy parameters, as the number of optimizer steps applied
    loss,             \* training cell: the loss of the current iteration
    training_rewards, \* training cell: one entry per completed iteration
    losses,           \* training cell: one entry per completed iteration
    validation_rewards, \* training cell: one entry per validation episode
    v,                \* training cell: position of `for _ in range(10)`
    vj,               \* training cell: position of the validation `for _ in range(rollout_limit)`
    reward,           \* training cell: reward accumulated in a validation episode
    raised,           \* the exception raised in the try block and where, if any
    mode,             \* how the action in `a` was chosen: "sample" or "argmax"
    stats             \* counts of validation phases and validation episodes begun

crvars == <<heap, rewards, discount_factor, returns, calls, memo, last>>

loopvars == <<pc, i, j, rollout, s, a, env, theta, loss, training_rewards,
              losses, validation_rewards, v, vj, reward, raised, mode, stats>>

vars == <<crvars, loopvars>>

-----------------------------------------------------------------------------
(* Bounds *)

MaxLen == 2        \* longest generic reward sequence drawn
MaxCalls == 3      \* compute_returns calls per behaviour

\* Training settings, scaled down from the notebook's 800 / 500 / 100.
num_episodes == 3
rollout_limit == 3
val_freq == 2

\* for _ in range(10): validation episodes per validation phase
NumValEpisodes == 10

RewardVals == {-1, 0, 1}

-----------------------------------------------------------------------------
(* Rational arithmetic standing for float64 arithmetic *)

Abs(x) == IF x < 0 THEN -x ELSE x

RECURSIVE GCD(_, _)
GCD(m, n) == IF n = 0 THEN m ELSE GCD(n, m % n)

\* The fraction n/d in lowest terms.  (Here and below the operands are bound
\* as values, by x \in {n}, before they are used more than once.)
Rat(n, d) ==
    CHOOSE q \in {<<x \div GCD(Abs(x), y), y \div GCD(Abs(x), y)>> :
                     x \in {n}, y \in {d}} : TRUE

float(x) == <<x, 1>>

RatAdd(x, y) ==
    CHOOSE q \in {LET l == (p[2] \div GCD(p[2], r[2])) * r[2]
                  IN  Rat(p[1] * (l \div p[2]) + r[1] * (l \div r[2]), l) :
                     p \in {x}, r \in {y}} : TRUE

RatMul(x, y) ==
    CHOOSE q \in {Rat(p[1] * r[1], p[2] * r[2]) : p \in {x}, r \in {y}} : TRUE

Zero == float(0)
One == float(1)
Half == <<1, 2>>
NineTenths == <<9, 10>>

\* sum(xs) of a float array
RECURSIVE RatSum(_)
RatSum(q) == IF q = <<>> THEN Zero ELSE RatAdd(Head(q), RatSum(Tail(q)))

Gammas == {Zero, Half, NineTenths, One}

\* The reward sequence of the notebook's Exercise 2.
Exercise2 == <<0, 1, 1, 1, 0, 1, 1, 0, 0, 0>>

-----------------------------------------------------------------------------
(* compute_returns, executed on the heap *)

\* np.array(xs, dtype=float): a new float array with the values of xs.
np_array(xs) == [k \in 1..Len(xs) |-> float(xs[k])]

\* A reference no live object has.
FreshRef(h) == CHOOSE r \in 1..(Cardinality(DOMAIN h) + 1) : r \notin DOMAIN h

\* Faulty variants of np.zeros(len(rewards)): the input array itself is
\* used as the result; the caller's previous result array is reused; the
\* array is one element too long.
np_zeros_inplace(h, rew) == [heap |-> h, ref |-> rew]

np_zeros_reuse(h, rew) ==
    LET r == IF returns \in DOMAIN h THEN returns ELSE FreshRef(h)
    IN  [heap |-> [x \in DOMAIN h \cup {r} |->
                      IF x = r THEN [k \in 1..Len(h[rew]) |-> Zero] ELSE h[x]],
         ref  |-> r]

np_zeros_long(h, rew) ==
    LET r == FreshRef(h)
    IN  [heap |-> [x \in DOMAIN h \cup {r} |->
                      IF x = r THEN [k \in 1..(Len(h[rew]) + 1) |-> Zero]
                      ELSE h[x]],
         ref  |-> r]

\* returns = np.zeros(len(rewards)): a NEW array of zeros; yields the heap
\* with the array allocated and its reference.
np_zeros(h, rew) ==
    LET r == FreshRef(h)
    IN  [heap |-> [x \in DOMAIN h \cup {r} |->
                      IF x = r THEN [k \in 1..Len(h[rew]) |-> Zero] ELSE h[x]],
         ref  |-> r]

\* Faulty variant: returns[-1] = rewards[0].
SetLastFirst(h, ret, rew) ==
    [h EXCEPT ![ret][Len(h[ret])] = h[rew][1]]

\* returns[-1] = rewards[-1].  Python index -1 is position Len in 1-based
\* sequences; on an empty array the statement raises IndexError, which
\* compute_returns below decides before it applies SetLast.
SetLast(h, ret, rew) ==
    [h EXCEPT ![ret][Len(h[ret])] = h[rew][Len(h[rew])]]

\* Faulty variants: range(len(rewards)-2); range(1, len(rewards)-1).
LoopRangeShort(n) == 1..(n - 2)

LoopRangeSkipsFirst(n) == 2..(n - 1)

\* range(len(rewards)-1) counted from 1: t = 1 .. N-1 (Python 0 .. N-2).
LoopRange(n) == 1..(n - 1)

\* Faulty variants of the loop body: the discount factor is left out; the
\* next reward is used instead of the next return; the reward is
\* discounted too.
LoopBodyNoDiscount(h, ret, rew, g, t) ==
    [h EXCEPT ![ret][t] = RatAdd(h[rew][t], h[ret][t + 1])]

LoopBodyNextReward(h, ret, rew, g, t) ==
    [h EXCEPT ![ret][t] = RatAdd(h[rew][t], RatMul(g, h[rew][t + 1]))]

LoopBodyDiscountsReward(h, ret, rew, g, t) ==
    [h EXCEPT ![ret][t] = RatMul(g, RatAdd(h[rew][t], h[ret][t + 1]))]

\* Faulty variant: the discounted tail is subtracted.
LoopBodySubtracts(h, ret, rew, g, t) ==
    [h EXCEPT ![ret][t] =
        RatAdd(h[rew][t], RatMul(float(-1), RatMul(g, h[ret][t + 1])))]

\* returns[t] = rewards[t] + discount_factor * returns[t+1]
LoopBody(h, ret, rew, g, t) ==
    [h EXCEPT ![ret][t] = RatAdd(h[rew][t], RatMul(g, h[ret][t + 1]))]

\* for t in reversed(range(len(rewards)-1)): the heap after the iterations
\* for t, t-1, ... down to the first value of the range have run, in that
\* order.  (The heap after one iteration is bound as a value, hh, before
\* the remaining iterations are applied to it.)
RECURSIVE Backward(_, _, _, _, _, _)
Backward(h, ret, rew, g, rng, t) ==
    IF t \notin rng THEN h
    ELSE CHOOSE out \in {Backward(hh, ret, rew, g, rng, t - 1) :
                             hh \in {LoopBody(h, ret, rew, g, t)}} : TRUE

\* Faulty variant: an empty sequence is answered with the empty array.
compute_returns_guarded(h, rew, g) ==
    LET z   == np_zeros(h, rew)
        n   == Len(h[rew])
        rng == LoopRange(n)
    IN  IF n = 0
        THEN [heap |-> z.heap, ref |-> z.ref, exc |-> "none", iters |-> 0]
        ELSE [heap  |-> Backward(SetLast(z.heap, z.ref, rew), z.ref, rew, g,
                                 rng, n - 1),
              ref   |-> z.ref,
              exc   |-> "none",
              iters |-> Cardinality(rng)]

\* The whole call compute_returns(rewards, discount_factor) on heap h, where
\* rew is the reference passed as `rewards`.  Yields the heap afterwards,
\* the reference returned (0 when the call raised), the exception raised
\* and the number of iterations of the backward loop.
compute_returns(h, rew, g) ==
    LET z   == np_zeros(h, rew)
        n   == Len(h[rew])
        rng == LoopRange(n)
    IN  IF n = 0
        THEN [heap |-> z.heap, ref |-> 0, exc |-> "IndexError", iters |-> 0]
        ELSE [heap  |-> Backward(SetLast(z.heap, z.ref, rew), z.ref, rew, g,
                                 rng, n - 1),
              ref   |-> z.ref,
              exc   |-> "none",
              iters |-> Cardinality(rng)]

-----------------------------------------------------------------------------
(* The caller of compute_returns: notebook cells binding `rewards` and     *)
(* `discount_factor` and evaluating returns = compute_returns(rewards,     *)
(* discount_factor).                                                       *)

RECURSIVE SeqsUpTo(_, _)
SeqsUpTo(S, n) ==
    IF n = 0 THEN {<<>>}
    ELSE LET shorter == SeqsUpTo(S, n - 1)
         IN  shorter \cup {Append(q, x) : q \in shorter, x \in S}

RewardSeqs == SeqsUpTo(RewardVals, MaxLen) \cup {Exercise2}

\* Sequences of the in-between calls: CartPole pays 1 on every step.
OtherSeqs == SeqsUpTo({1}, MaxLen + 1)

NoCall == [kind |-> "none", between |-> 0]

\* Objects no name refers to any more are collected.
Collect(h, live) == [x \in DOMAIN h \cap live |-> h[x]]

\* The state after returns = compute_returns(<arg>, g) where the heap holds
\* the argument at reference arg; kind tells which caller action made it.
\* The binding of the result res of the call compute_returns(arg, g) made
\* on heap h, and the record of the call.
Bind(res, h, arg, g, kind, keep) ==
       LET bound == IF res.exc = "none" THEN res.ref ELSE returns
       IN  /\ heap' = Collect(res.heap, {keep, bound})
           /\ returns' = bound
           /\ calls' = calls + 1
           /\ last' = [kind     |-> kind,
                       arg      |-> arg,
                       entry    |-> h[arg],
                       g        |-> g,
                       exc      |-> res.exc,
                       ref      |-> res.ref,
                       value    |-> IF res.exc = "none" THEN res.heap[res.ref]
                                    ELSE <<>>,
                       argAfter |-> res.heap[arg],
                       iters    |-> res.iters,
                       live     |-> DOMAIN h,
                       frame    |-> \A x \in DOMAIN h : res.heap[x] = h[x],
                       between  |-> IF kind = "other" /\ memo.kind # "none"
                                    THEN last.between + 1
                                    ELSE last.between]

CallEffect(h, arg, g, kind, keep) ==
    \E res \in {compute_returns(h, arg, g)} :
        Bind(res, h, arg, g, kind, keep)

NoExc == [exc |-> "none", at |-> "none"]

NoStats == [phases |-> 0, episodes |-> 0, dones |-> 0]

\* The training cell has not been run.
LoopIdle ==
    /\ pc = "idle" /\ i = 0 /\ j = 0 /\ rollout = <<>> /\ s = 0 /\ a = 0
    /\ env = [s |-> 0, done |-> FALSE, t |-> 0, doneAt |-> 0, start |-> 0,
             trace |-> <<>>]
    /\ theta = 0 /\ loss = <<>> /\ training_rewards = <<>> /\ losses = <<>>
    /\ validation_rewards = <<>> /\ v = 0 /\ vj = 0 /\ reward = 0
    /\ raised = NoExc /\ mode = "none" /\ stats = NoStats

InitCR ==
    /\ \E R \in RewardSeqs : heap = (1 :> np_array(R))
    /\ last = NoCall
    /\ rewards = 1
    /\ discount_factor \in Gammas
    /\ returns = 0
    /\ calls = 0
    /\ memo = NoCall
    /\ LoopIdle

\* returns = compute_returns(rewards, discount_factor)
CallKept ==
    /\ calls < MaxCalls
    /\ CallEffect(heap, rewards, discount_factor, "kept", rewards)
    /\ memo' = IF memo.kind = "none" THEN last' ELSE memo
    /\ UNCHANGED <<rewards, discount_factor, loopvars>>

\* returns = compute_returns(np.array(R), g) on some other sequence
CallOther ==
    /\ calls < MaxCalls
    /\ \E R \in OtherSeqs, g \in Gammas :
          LET r == FreshRef(heap)
              h == [x \in DOMAIN heap \cup {r} |->
                       IF x = r THEN np_array(R) ELSE heap[x]]
          IN  CallEffect(h, r, g, "other", rewards)
    /\ UNCHANGED <<rewards, discount_factor, memo, loopvars>>

NextCR == CallKept \/ CallOther

SpecCR == InitCR /\ [][NextCR]_vars

-----------------------------------------------------------------------------
(* The environment and the policy, the two collaborators of the training   *)
(* cell.  The environment is a deterministic pole: the observation is the  *)
(* tilt, an action pushes it one unit left or right, the episode is done   *)
(* when the tilt leaves -1..1, and every reset starts from env.start.      *)
(* env.t counts the steps since the last reset and env.doneAt is the step  *)
(* on which done was first signalled since then (0: not yet); env.trace    *)
(* lists, for every step since the last reset, the observation before the  *)
(* step, the action and the reward.                                        *)

Actions == {0, 1}

StartStates == {0, 1}

\* env.reset() -> the environment after the reset; its observation is .s
EnvReset(e) ==
    [e EXCEPT !.s = e.start, !.done = FALSE, !.t = 0, !.doneAt = 0,
              !.trace = <<>>]

\* env.step(a) -> (s1, r, done, _): the environment after the step and the
\* reward of the step; the new observation is .env.s, the flag .env.done
EnvStep(e, act) ==
    LET s1 == IF act = 1 THEN e.s + 1 ELSE e.s - 1
        d  == Abs(s1) > 1
    IN  [env    |-> [e EXCEPT !.s = s1, !.done = d, !.t = e.t + 1,
                              !.doneAt = IF d /\ e.doneAt = 0 THEN e.t + 1
                                         ELSE e.doneAt,
                              !.trace = Append(e.trace, <<e.s, act, Abs(s1)>>)],
         reward |-> Abs(s1)]

\* a_prob.argmax().item(): the greedy action of the current parameters
Argmax(th, obs) == (th + Abs(obs)) % 2

\* policy(s)[act]: the softmax output of the current parameters gives the
\* greedy action the larger of two positive probabilities that sum to 1.
Prob(th, obs, act) == IF act = Argmax(th, obs) THEN <<2, 3>> ELSE <<1, 3>>

\* The values a_prob takes.
ProbVals == {<<1, 3>>, <<2, 3>>}

\* torch.multinomial(a_prob, num_samples=1): softmax gives every action a
\* positive probability, so any action can be drawn
Sampled == Actions

-----------------------------------------------------------------------------
(* The training cell *)

TrainGammas == {Half, One}

EmptyHeap == [x \in {} |-> <<>>]

Init ==
    /\ heap = EmptyHeap
    /\ rewards = 0
    /\ returns = 0
    /\ discount_factor \in TrainGammas
    /\ calls = 0
    /\ memo = NoCall
    /\ last = NoCall
    /\ pc = "try" /\ i = 0 /\ j = 0 /\ rollout = <<>> /\ s = 0 /\ a = 0
    /\ \E s0 \in StartStates, d \in BOOLEAN :
          env = [s |-> s0, done |-> d, t |-> 0, doneAt |-> 0, start |-> s0,
                 trace |-> <<>>]
    /\ theta = 0 /\ loss = <<>> /\ training_rewards = <<>> /\ losses = <<>>
    /\ validation_rewards = <<>> /\ v = 0 /\ vj = 0 /\ reward = 0
    /\ raised = NoExc /\ mode = "none" /\ stats = NoStats

\* Faulty variant: one value too many.
InRangeInclusive(k, n) == k <= n

\* range(n) still has a value after k values have been taken
InRange(k, n) == k < n

\* Faulty variant: the done flag is ignored.
BreakNever(done) == FALSE

\* if done: break
Break(done) == done

\* Faulty variants of the except clause: a bare `except:`; no clause.
ExceptAll(exc) == "interrupt"

ExceptNone(exc) == "error"

\* except KeyboardInterrupt: print('interrupt').  Where the cell goes when
\* exc is raised inside the try block: into the handler, or out of the
\* cell with the exception propagating.
Except(exc) == IF exc = "KeyboardInterrupt" THEN "interrupt" ELSE "error"

\* training_rewards, losses = [], []
Try ==
    /\ pc = "try"
    /\ training_rewards' = <<>>
    /\ losses' = <<>>
    /\ i' = 0
    /\ pc' = "for_i"
    /\ UNCHANGED <<crvars, j, rollout, s, a, env, theta, loss,
                   validation_rewards, v, vj, reward>>
    /\ UNCHANGED <<raised, mode, stats>>

\* for i in range(num_episodes): rollout = []   /   print('done')
\* At this position i is the number of iterations completed.
ForI ==
    /\ pc = "for_i"
    /\ IF InRange(i, num_episodes)
       THEN /\ rollout' = <<>>
            /\ pc' = "reset"
       ELSE /\ pc' = "done"
            /\ UNCHANGED rollout
    /\ UNCHANGED <<crvars, i, j, s, a, env, theta, loss, training_rewards,
                   losses, validation_rewards, v, vj, reward>>
    /\ UNCHANGED <<raised, mode, stats>>

\* Faulty variant: the training rollout goes on from where the environment
\* was left.
ResetSkipped ==
    /\ pc = "reset"
    /\ env' = env
    /\ s' = env'.s
    /\ j' = 0
    /\ pc' = "for_j"
    /\ UNCHANGED <<crvars, i, rollout, a, theta, loss, training_rewards,
                   losses, validation_rewards, v, vj, reward>>
    /\ UNCHANGED <<raised, mode, stats>>

\* s = env.reset()
Reset ==
    /\ pc = "reset"
    /\ env' = EnvReset(env)
    /\ s' = env'.s
    /\ j' = 0
    /\ pc' = "for_j"
    /\ UNCHANGED <<crvars, i, rollout, a, theta, loss, training_rewards,
                   losses, validation_rewards, v, vj, reward>>
    /\ UNCHANGED <<raised, mode, stats>>

\* for j in range(rollout_limit):
ForJ ==
    /\ pc = "for_j"
    /\ pc' = IF InRange(j, rollout_limit) THEN "act" ELSE "batch"
    /\ UNCHANGED <<crvars, i, j, rollout, s, a, env, theta, loss,
                   training_rewards, losses, validation_rewards, v, vj, reward>>
    /\ UNCHANGED <<raised, mode, stats>>

\* Faulty variant: the training rollout takes the arg-max action.
ActGreedy ==
    /\ pc = "act"
    /\ a' = Argmax(theta, s)
    /\ mode' = "argmax"
    /\ pc' = "step"
    /\ UNCHANGED <<crvars, i, j, rollout, s, env, theta, loss,
                   training_rewards, losses, validation_rewards, v, vj, reward>>
    /\ UNCHANGED <<raised, stats>>

\* with torch.no_grad(): a_prob = policy(s); a = torch.multinomial(a_prob, 1)
Act ==
    /\ pc = "act"
    /\ a' \in Sampled
    /\ mode' = "sample"
    /\ pc' = "step"
    /\ UNCHANGED <<crvars, i, j, rollout, s, env, theta, loss,
                   training_rewards, losses, validation_rewards, v, vj, reward>>
    /\ UNCHANGED <<raised, stats>>

\* Faulty variant: the done flag is tested before the triple is appended.
StepBreaksBeforeAppend ==
    /\ pc = "step"
    /\ \E res \in {EnvStep(env, a)} :
          /\ env' = res.env
          /\ rollout' = IF Break(res.env.done) THEN rollout
                        ELSE Append(rollout, <<s, a, res.reward>>)
          /\ s' = res.env.s
          /\ IF Break(res.env.done)
             THEN /\ pc' = "batch"
                  /\ stats' = [stats EXCEPT !.dones = @ + 1]
                  /\ UNCHANGED j
             ELSE /\ j' = j + 1
                  /\ pc' = "for_j"
                  /\ UNCHANGED stats
    /\ UNCHANGED <<crvars, i, a, theta, loss, training_rewards, losses,
                   validation_rewards, v, vj, reward>>
    /\ UNCHANGED <<raised, mode>>

\* Faulty variant: the triple records the state after the step.
StepRecordsNextState ==
    /\ pc = "step"
    /\ \E res \in {EnvStep(env, a)} :
          /\ env' = res.env
          /\ rollout' = Append(rollout, <<res.env.s, a, res.reward>>)
          /\ s' = res.env.s
          /\ IF Break(res.env.done)
             THEN /\ pc' = "batch"
                  /\ stats' = [stats EXCEPT !.dones = @ + 1]
                  /\ UNCHANGED j
             ELSE /\ j' = j + 1
                  /\ pc' = "for_j"
                  /\ UNCHANGED stats
    /\ UNCHANGED <<crvars, i, a, theta, loss, training_rewards, losses,
                   validation_rewards, v, vj, reward>>
    /\ UNCHANGED <<raised, mode>>

\* s1, r, done, _ = env.step(a); rollout.append((s, a, r)); s = s1;
\* if done: break
Step ==
    /\ pc = "step"
    /\ \E res \in {EnvStep(env, a)} :
          /\ env' = res.env
          /\ rollout' = Append(rollout, <<s, a, res.reward>>)
          /\ s' = res.env.s
          /\ IF Break(res.env.done)
             THEN /\ pc' = "batch"
                  /\ stats' = [stats EXCEPT !.dones = @ + 1]
                  /\ UNCHANGED j
             ELSE /\ j' = j + 1
                  /\ pc' = "for_j"
                  /\ UNCHANGED stats
    /\ UNCHANGED <<crvars, i, a, theta, loss, training_rewards, losses,
                   validation_rewards, v, vj, reward>>
    /\ UNCHANGED <<raised, mode>>

\* rollout = np.array(rollout); states, actions = ...;
\* rewards = np.array(rollout[:,2], dtype=float);
\* returns = compute_returns(rewards, discount_factor)
\* Slicing an empty rollout raises IndexError.
Batch ==
    /\ pc = "batch"
    /\ IF rollout = <<>>
       THEN /\ raised' = [exc |-> "IndexError", at |-> pc]
            /\ pc' = Except("IndexError")
            /\ UNCHANGED crvars
       ELSE LET kept == Collect(heap, {returns})
                r    == FreshRef(kept)
                h    == [x \in DOMAIN kept \cup {r} |->
                            IF x = r
                            THEN np_array([t \in 1..Len(rollout) |-> rollout[t][3]])
                            ELSE kept[x]]
            IN  \E res \in {compute_returns(h, r, discount_factor)} :
                    /\ Bind(res, h, r, discount_factor, "train", r)
                    /\ rewards' = r
                    /\ raised' = IF res.exc = "none" THEN raised
                                 ELSE [exc |-> res.exc, at |-> pc]
                    /\ pc' = IF res.exc = "none" THEN "update"
                             ELSE Except(res.exc)
                    /\ UNCHANGED <<discount_factor, memo>>
    /\ UNCHANGED <<i, j, rollout, s, a, env, theta, loss, training_rewards,
                   losses, validation_rewards, v, vj, reward>>
    /\ UNCHANGED <<mode, stats>>

\* Faulty variant: the probability of the action that was not taken.
GatherOther(th, states, actions) ==
    [t \in 1..Len(states) |-> Prob(th, states[t], 1 - actions[t])]

\* policy(states).gather(1, actions).view(-1): for every timestep the
\* probability of the action taken in the state visited
Gather(th, states, actions) ==
    [t \in 1..Len(states) |-> Prob(th, states[t], actions[t])]

\* Faulty variants of PolicyNet.loss: torch.sum for torch.mean; the sign is
\* left out.
PolicyLossSum(action_probabilities, rets) ==
    [p \in ProbVals |->
        RatMul(float(-1),
               RatSum([t \in 1..Len(rets) |->
                          IF action_probabilities[t] = p THEN rets[t]
                          ELSE Zero]))]

PolicyLossPositive(action_probabilities, rets) ==
    [p \in ProbVals |->
        RatMul(<<1, Len(rets)>>,
               RatSum([t \in 1..Len(rets) |->
                          IF action_probabilities[t] = p THEN rets[t]
                          ELSE Zero]))]

\* -torch.mean(torch.mul(torch.log(action_probabilities), returns))
\* The logarithms of the values in ProbVals are not rational (and are
\* linearly independent over the rationals), so the loss is the
\* combination  SUM over p of  c[p] * log(p)  kept as its coefficients c:
\* c[p] is minus the sum of the returns at the timesteps whose probability
\* is p, divided by the number of timesteps.
PolicyLoss(action_probabilities, rets) ==
    [p \in ProbVals |->
        RatMul(<<-1, Len(rets)>>,
               RatSum([t \in 1..Len(rets) |->
                          IF action_probabilities[t] = p THEN rets[t]
                          ELSE Zero]))]

\* Faulty variants: the rollout is resumed after the optimizer step; the
\* optimizer steps twice.
UpdateResumesRollout ==
    /\ pc = "update"
    /\ loss' = [theta |-> theta,
                terms |-> [t \in 1..Len(rollout) |->
                              <<rollout[t][1], rollout[t][2], heap[returns][t]>>],
                value |-> PolicyLoss(
                              Gather(theta,
                                     [t \in 1..Len(rollout) |-> rollout[t][1]],
                                     [t \in 1..Len(rollout) |-> rollout[t][2]]),
                              heap[returns])]
    /\ theta' = theta + 1
    /\ pc' = "for_j"
    /\ UNCHANGED <<crvars, i, j, rollout, s, a, env, training_rewards, losses,
                   validation_rewards, v, vj, reward>>
    /\ UNCHANGED <<raised, mode, stats>>

UpdateTwice ==
    /\ pc = "update"
    /\ loss' = [theta |-> theta,
                terms |-> [t \in 1..Len(rollout) |->
                              <<rollout[t][1], rollout[t][2], heap[returns][t]>>],
                value |-> PolicyLoss(
                              Gather(theta,
                                     [t \in 1..Len(rollout) |-> rollout[t][1]],
                                     [t \in 1..Len(rollout) |-> rollout[t][2]]),
                              heap[returns])]
    /\ theta' = theta + 2
    /\ pc' = "book"
    /\ UNCHANGED <<crvars, i, j, rollout, s, a, env, training_rewards, losses,
                   validation_rewards, v, vj, reward>>
    /\ UNCHANGED <<raised, mode, stats>>

\* policy.optimizer.zero_grad(); a_probs = policy(states).gather(1, actions);
\* loss = policy.loss(a_probs, returns); loss.backward();
\* policy.optimizer.step()
\* The loss is kept as its terms (for each timestep the state, the action
\* whose probability is taken, and the return that multiplies its
\* logarithm) and as its value, PolicyLoss of the gathered probabilities.
Update ==
    /\ pc = "update"
    /\ loss' = [theta |-> theta,
                terms |-> [t \in 1..Len(rollout) |->
                              <<rollout[t][1], rollout[t][2], heap[returns][t]>>],
                value |-> PolicyLoss(
                              Gather(theta,
                                     [t \in 1..Len(rollout) |-> rollout[t][1]],
                                     [t \in 1..Len(rollout) |-> rollout[t][2]]),
                              heap[returns])]
    /\ theta' = theta + 1
    /\ pc' = "book"
    /\ UNCHANGED <<crvars, i, j, rollout, s, a, env, training_rewards, losses,
                   validation_rewards, v, vj, reward>>
    /\ UNCHANGED <<raised, mode, stats>>

\* loss.item(): the loss value, identified by the parameters it was computed
\* with and the number of its terms.
LossItem(l) == [theta |-> l.theta, n |-> Len(l.terms)]

\* Faulty variant: training_rewards.append(returns[0])
BookFirstReturn ==
    /\ pc = "book"
    /\ training_rewards' = Append(training_rewards, heap[returns][1])
    /\ pc' = "book_loss"
    /\ UNCHANGED <<crvars, i, j, rollout, s, a, env, theta, loss, losses,
                   validation_rewards, v, vj, reward>>
    /\ UNCHANGED <<raised, mode, stats>>

\* training_rewards.append(sum(rewards))
Book ==
    /\ pc = "book"
    /\ training_rewards' = Append(training_rewards, RatSum(heap[rewards]))
    /\ pc' = "book_loss"
    /\ UNCHANGED <<crvars, i, j, rollout, s, a, env, theta, loss, losses,
                   validation_rewards, v, vj, reward>>
    /\ UNCHANGED <<raised, mode, stats>>

\* Faulty variant: the loss is not recorded.
BookLossSkipped ==
    /\ pc = "book_loss"
    /\ losses' = losses
    /\ pc' = "val_if"
    /\ UNCHANGED <<crvars, i, j, rollout, s, a, env, theta, loss,
                   training_rewards, validation_rewards, v, vj, reward>>
    /\ UNCHANGED <<raised, mode, stats>>

\* losses.append(loss.item())
BookLoss ==
    /\ pc = "book_loss"
    /\ losses' = Append(losses, LossItem(loss))
    /\ pc' = "val_if"
    /\ UNCHANGED <<crvars, i, j, rollout, s, a, env, theta, loss,
                   training_rewards, validation_rewards, v, vj, reward>>
    /\ UNCHANGED <<raised, mode, stats>>

\* Faulty variant: i % val_freq == 0.
ValDueZeroBased(k) == k % val_freq = 0

\* (i+1) % val_freq == 0
ValDue(k) == (k + 1) % val_freq = 0

\* if (i+1) % val_freq == 0: validation_rewards = []
ValIf ==
    /\ pc = "val_if"
    /\ IF ValDue(i)
       THEN /\ validation_rewards' = <<>>
            /\ v' = 0
            /\ pc' = "val_for"
            /\ stats' = [stats EXCEPT !.phases = @ + 1]
            /\ UNCHANGED i
       ELSE /\ i' = i + 1
            /\ pc' = "for_i"
            /\ UNCHANGED <<validation_rewards, v, stats>>
    /\ UNCHANGED <<crvars, j, rollout, s, a, env, theta, loss,
                   training_rewards, losses, vj, reward>>
    /\ UNCHANGED <<raised, mode>>

\* for _ in range(10):   /   print(...) after the last validation episode
ValFor ==
    /\ pc = "val_for"
    /\ IF InRange(v, NumValEpisodes)
       THEN /\ pc' = "val_reset"
            /\ UNCHANGED i
       ELSE /\ i' = i + 1
            /\ pc' = "for_i"
    /\ UNCHANGED <<crvars, j, rollout, s, a, env, theta, loss,
                   training_rewards, losses, validation_rewards, v, vj, reward>>
    /\ UNCHANGED <<raised, mode, stats>>

\* s = env.reset(); reward = 0
ValReset ==
    /\ pc = "val_reset"
    /\ env' = EnvReset(env)
    /\ s' = env'.s
    /\ reward' = 0
    /\ vj' = 0
    /\ stats' = [stats EXCEPT !.episodes = @ + 1]
    /\ pc' = "val_for_j"
    /\ UNCHANGED <<crvars, i, j, rollout, a, theta, loss, training_rewards,
                   losses, validation_rewards, v>>
    /\ UNCHANGED <<raised, mode>>

\* for _ in range(rollout_limit):
ValForJ ==
    /\ pc = "val_for_j"
    /\ pc' = IF InRange(vj, rollout_limit) THEN "val_act" ELSE "val_end"
    /\ UNCHANGED <<crvars, i, j, rollout, s, a, env, theta, loss,
                   training_rewards, losses, validation_rewards, v, vj, reward>>
    /\ UNCHANGED <<raised, mode, stats>>

\* with torch.no_grad(): a_prob = policy(s); a = a_prob.argmax().item()
ValAct ==
    /\ pc = "val_act"
    /\ a' = Argmax(theta, s)
    /\ mode' = "argmax"
    /\ pc' = "val_step"
    /\ UNCHANGED <<crvars, i, j, rollout, s, env, theta, loss,
                   training_rewards, losses, validation_rewards, v, vj, reward>>
    /\ UNCHANGED <<raised, stats>>

\* s, r, done, _ = env.step(a); reward += r; if done: break
ValStep ==
    /\ pc = "val_step"
    /\ \E res \in {EnvStep(env, a)} :
          /\ env' = res.env
          /\ s' = res.env.s
          /\ reward' = reward + res.reward
          /\ IF Break(res.env.done)
             THEN /\ pc' = "val_end"
                  /\ UNCHANGED vj
             ELSE /\ vj' = vj + 1
                  /\ pc' = "val_for_j"
    /\ UNCHANGED <<crvars, i, j, rollout, a, theta, loss, training_rewards,
                   losses, validation_rewards, v>>
    /\ UNCHANGED <<raised, mode, stats>>

\* validation_rewards.append(reward)
ValEnd ==
    /\ pc = "val_end"
    /\ validation_rewards' = Append(validation_rewards, reward)
    /\ v' = v + 1
    /\ pc' = "val_for"
    /\ UNCHANGED <<crvars, i, j, rollout, s, a, env, theta, loss,
                   training_rewards, losses, vj, reward>>
    /\ UNCHANGED <<raised, mode, stats>>

\* Faulty variant: the interrupt is only looked at by the loop header,
\* between two iterations.
RunningBetweenIterations == {"for_i"}

\* Positions inside the try block.
Running == {"try", "for_i", "reset", "for_j", "act", "step", "batch", "update",
            "book", "book_loss", "val_if", "val_for", "val_reset", "val_for_j", "val_act",
            "val_step", "val_end"}

\* Positions at which the environment or the policy model is called.
Calling == {"reset", "act", "step", "update", "val_reset", "val_act",
            "val_step"}

\* Faulty variant: the handler starts the metric lists afresh.
KeyboardInterruptClears ==
    /\ pc \in Running
    /\ raised' = [exc |-> "KeyboardInterrupt", at |-> pc]
    /\ pc' = Except("KeyboardInterrupt")
    /\ training_rewards' = <<>> /\ losses' = <<>>
    /\ UNCHANGED <<crvars, i, j, rollout, s, a, env, theta, loss,
                   validation_rewards, v, vj, reward>>
    /\ UNCHANGED <<mode, stats>>

\* The interrupt is raised by the interpreter between any two bytecodes of
\* the try block.
KeyboardInterrupt ==
    /\ pc \in Running
    /\ raised' = [exc |-> "KeyboardInterrupt", at |-> pc]
    /\ pc' = Except("KeyboardInterrupt")
    /\ UNCHANGED <<crvars, i, j, rollout, s, a, env, theta, loss,
                   training_rewards, losses, validation_rewards, v, vj, reward>>
    /\ UNCHANGED <<mode, stats>>

\* Any other exception raised by env.reset, env.step or the policy is not
\* handled by the try statement and ends the cell.
RuntimeError ==
    /\ pc \in Calling
    /\ raised' = [exc |-> "RuntimeError", at |-> pc]
    /\ pc' = Except("RuntimeError")
    /\ UNCHANGED <<crvars, i, j, rollout, s, a, env, theta, loss,
                   training_rewards, losses, validation_rewards, v, vj, reward>>
    /\ UNCHANGED <<mode, stats>>

Next ==
    \/ Try \/ ForI \/ Reset \/ ForJ \/ Act \/ Step \/ Batch \/ Update \/ Book
    \/ BookLoss
    \/ ValIf \/ ValFor \/ ValReset \/ ValForJ \/ ValAct \/ ValStep \/ ValEnd
    \/ KeyboardInterrupt \/ RuntimeError

Spec == Init /\ [][Next]_vars

\* The statements of the cell, without exceptions: the interpreter always
\* executes the next statement.
Normal ==
    \/ Try \/ ForI \/ Reset \/ ForJ \/ Act \/ Step \/ Batch \/ Update \/ Book
    \/ BookLoss
    \/ ValIf \/ ValFor \/ ValReset \/ ValForJ \/ ValAct \/ ValStep \/ ValEnd

\* A run in which no interrupt arrives and neither collaborator fails.
SpecNoExc == Init /\ [][Normal]_vars /\ WF_vars(Normal)

-----------------------------------------------------------------------------
(* Properties of compute_returns, checked under SpecCR *)

\* The most recent call: R its argument as it was on entry, G the array it
\* returned, N the length, gamma the discount factor it was given.
Called == last.kind # "none"
Returned == Called /\ last.exc = "none"
R == last.entry
G == last.value
N == Len(last.entry)
gamma == last.g

RECURSIVE RatPow(_, _)
RatPow(x, e) == IF e = 0 THEN One ELSE RatMul(x, RatPow(x, e - 1))

\* sum over k = t..Len(q) of g^(k-t) * q[k]
DiscountedSum(q, g, t) ==
    RatSum([k \in 1..(Len(q) - t + 1) |->
               RatMul(RatPow(g, k - 1), q[t + k - 1])])

\* A non-negative rational in hundredths, rounded half up.
Round2(x) == (200 * x[1] + x[2]) \div (2 * x[2])

IsExercise2 == Returned /\ R = np_array(Exercise2)

\* C1: for every reward sequence of length N >= 1 and every discount factor
\* in [0, 1] the call returns a sequence G of length N with G[N-1] = R[N-1]
\* and G[t] = R[t] + g * G[t+1] for every earlier t.
C1_Recurrence ==
    (Called /\ N >= 1) =>
        /\ last.exc = "none"
        /\ Len(G) = N
        /\ G[N] = R[N]
        /\ \A t \in 1..(N - 1) : G[t] = RatAdd(R[t], RatMul(gamma, G[t + 1]))

C1_Witness ==
    /\ Returned /\ N >= 2 /\ gamma = Half
    /\ R[N] # Zero /\ G[1] # R[1]

\* C2: every returned element G[t] is the discounted sum of the rewards from
\* t to the end of the episode.
C2_DiscountedSum ==
    (Called /\ N >= 1) =>
        /\ last.exc = "none"
        /\ Len(G) = N
        /\ \A t \in 1..N : G[t] = DiscountedSum(R, gamma, t)

C2_Witness ==
    /\ IsExercise2 /\ gamma = NineTenths
    /\ G[4] = <<2539, 1000>>

\* C3: with discount factor 1 the first return is the sum of all rewards.
C3_UndiscountedTotal ==
    (Called /\ N >= 1 /\ gamma = One) =>
        /\ last.exc = "none"
        /\ G[1] = RatSum(R)

C3_Witness ==
    /\ Returned /\ gamma = One /\ N >= 2
    /\ R[1] # Zero /\ R[N] # Zero /\ R[1] # R[N]

\* C4: with discount factor 0 the returns equal the rewards element by
\* element.
C4_ZeroDiscount ==
    (Called /\ N >= 1 /\ gamma = Zero) =>
        /\ last.exc = "none"
        /\ G = R

C4_Witness ==
    /\ Returned /\ gamma = Zero /\ N >= 2
    /\ \A t \in 1..N : R[t] # Zero

\* C5 as stated: for the Exercise 2 rewards and discount factor 0.9, G[8] = 0,
\* G[7] = 0, G[6] = 1, G[5] = 1.9 and G[0] is 3.10 to two decimal places.
C5_AsStated ==
    (IsExercise2 /\ gamma = NineTenths) =>
        /\ G[9] = Zero /\ G[8] = Zero /\ G[7] = One
        /\ G[6] = <<19, 10>>
        /\ Round2(G[1]) = 310

\* C5 amended: for the Exercise 2 rewards and discount factor 0.9, G[8] = 0,
\* G[7] = 0, G[6] = 1, G[5] = 1.9 and G[0] = 3.560931, which is 3.56 to two
\* decimal places.
C5_Exercise2Discounted ==
    (IsExercise2 /\ gamma = NineTenths) =>
        /\ G[9] = Zero /\ G[8] = Zero /\ G[7] = One
        /\ G[6] = <<19, 10>>
        /\ G[1] = <<3560931, 1000000>>
        /\ Round2(G[1]) = 356

C5_Witness == IsExercise2 /\ gamma = NineTenths /\ Len(G) = 10

\* C6: for the Exercise 2 rewards and discount factor 1 the returns are
\* exactly [5, 5, 4, 3, 2, 2, 1, 0, 0, 0], so G[0] is the total reward 5.
C6_Exercise2Undiscounted ==
    (IsExercise2 /\ gamma = One) =>
        /\ G = np_array(<<5, 5, 4, 3, 2, 2, 1, 0, 0, 0>>)
        /\ G[1] = RatSum(R)

C6_Witness == IsExercise2 /\ gamma = One /\ last.iters = 9

\* C7: a one-element reward sequence [r] gives [r] for any discount factor,
\* and the backward loop runs zero times.
C7_SingleElement ==
    (Called /\ N = 1) =>
        /\ last.exc = "none"
        /\ G = <<R[1]>>
        /\ last.iters = 0

C7_Witness == Returned /\ N = 1 /\ R[1] # Zero /\ gamma \notin {Zero, One}

\* C8: a call made again with the same rewards and discount factor returns
\* the same sequence as the first such call did, whatever calls were made
\* in between.
C8_Deterministic ==
    (last.kind = "kept" /\ memo.kind # "none") =>
        /\ last.exc = memo.exc
        /\ last.value = memo.value

C8_Witness ==
    /\ last.kind = "kept" /\ last.exc = "none" /\ calls >= 3
    /\ last.between >= 1 /\ N >= 2 /\ G # R

\* C9: the call has no side effect: the caller's reward sequence is the
\* same element by element afterwards, every array that existed before the
\* call is unchanged, and the returned array is a new object, not the input.
C9_NoSideEffects ==
    Called =>
        /\ last.argAfter = last.entry
        /\ last.frame
        /\ last.exc = "none" =>
              /\ last.ref # last.arg
              /\ last.ref \notin last.live

C9_Witness ==
    /\ Returned /\ N >= 2 /\ G # R
    /\ returns = last.ref /\ Cardinality(last.live) >= 2

-----------------------------------------------------------------------------
(* Properties of the training cell, checked under Spec *)

Min(x, y) == IF x <= y THEN x ELSE y

\* Positions after the rollout loop of an iteration and before the
\* environment is reset again.
AfterRollout == {"batch", "update", "book", "book_loss", "val_if"}

\* C10: the rollout loop steps the environment until the first step that
\* signals done, which is itself recorded, or until rollout_limit steps:
\* the rollout length is min(d, rollout_limit) when done is first signalled
\* on step d, rollout_limit when it is not signalled, and never more than
\* rollout_limit.
C10_RolloutLength ==
    /\ Len(rollout) <= rollout_limit
    /\ pc \in AfterRollout =>
          /\ Len(rollout) = env.t
          /\ Len(rollout) = IF env.doneAt # 0
                            THEN Min(env.doneAt, rollout_limit)
                            ELSE rollout_limit

C10_Witness ==
    /\ pc = "batch" /\ i >= 1
    /\ env.doneAt # 0 /\ env.doneAt < rollout_limit
    /\ Len(rollout) = env.doneAt

\* C11: without an interruption or error the loop terminates after exactly
\* num_episodes iterations, also when the environment never signals done;
\* then num_episodes gradient updates have been applied and
\* training_rewards and losses hold num_episodes entries each.
C11_Terminates ==
    <>[](/\ pc = "done"
         /\ i = num_episodes
         /\ theta = num_episodes
         /\ Len(training_rewards) = num_episodes
         /\ Len(losses) = num_episodes)

C11_Witness ==
    /\ pc = "done" /\ theta = num_episodes /\ stats.dones = 0
    /\ Len(losses) = num_episodes /\ Len(rollout) = rollout_limit

\* The cell has ended, in one of its three outcomes.
Exited == pc \in {"done", "interrupt", "error"}

\* Nothing of the loop runs in this step: no environment step, no gradient
\* update, no validation episode, no further outcome.
NothingRuns ==
    /\ pc' = pc /\ env' = env /\ theta' = theta /\ stats' = stats
    /\ rollout' = rollout /\ validation_rewards' = validation_rewards

\* C12: a KeyboardInterrupt raised at any point of the running loop makes
\* the loop exit into the 'interrupt' outcome: no error propagates, 'done'
\* is not reported, and afterwards no environment step, gradient update or
\* validation episode happens.
C12_InterruptExits ==
    /\ [](raised.exc = "KeyboardInterrupt" <=> pc = "interrupt")
    /\ [][/\ (raised'.exc = "KeyboardInterrupt" /\ raised.exc = "none") =>
               (pc \in Running /\ raised'.at = pc /\ pc' = "interrupt")
          /\ pc = "interrupt" => NothingRuns]_vars

C12_Witness ==
    /\ pc = "interrupt" /\ raised.at = "step"
    /\ i >= 1 /\ Len(rollout) >= 1

IsPrefix(p, q) == Len(p) <= Len(q) /\ \A k \in 1..Len(p) : p[k] = q[k]

\* C13: an interruption leaves the collected metrics intact: the step that
\* takes the interrupt path changes neither training_rewards nor losses,
\* entries once appended are never changed or reordered, and after the exit
\* the lists hold the entries of every iteration completed before it.
C13_MetricsIntact ==
    /\ [](pc = "interrupt" =>
             /\ Len(training_rewards) \in {i, i + 1}
             /\ Len(losses) \in {i, i + 1})
    /\ [][/\ pc # "try" => /\ IsPrefix(training_rewards, training_rewards')
                          /\ IsPrefix(losses, losses')
          /\ pc' = "interrupt" => /\ training_rewards' = training_rewards
                                  /\ losses' = losses]_vars

C13_Witness ==
    /\ pc = "interrupt" /\ raised.at \in {"act", "step"}
    /\ Len(training_rewards) = 2 /\ Len(losses) = 2 /\ i = 2

\* C14 as stated: an interruption takes effect only between two
\* iterations, so whenever the loop has exited through the interrupt path
\* every iteration that had started has completed its rollout, its update
\* and its bookkeeping.
C14_AsStated ==
    pc = "interrupt" =>
        /\ raised.at \in {"try", "for_i"}
        /\ theta = i /\ Len(training_rewards) = i /\ Len(losses) = i

\* Positions of an iteration before its gradient update.
BeforeUpdate == {"reset", "for_j", "act", "step", "batch", "update"}

\* C14: the only cancellation mechanism is the try statement around the
\* whole loop: an interruption can take effect at every position of the
\* running loop, within a rollout too, and an iteration interrupted before
\* its gradient update is abandoned without update or bookkeeping.
C14_InterruptAnywhere ==
    /\ ~Exited /\ pc # "idle" => ENABLED KeyboardInterrupt
    /\ Exited \/ pc = "idle" => ~ENABLED KeyboardInterrupt
    /\ pc = "interrupt" /\ raised.at \in BeforeUpdate =>
          /\ theta = i /\ Len(training_rewards) = i /\ Len(losses) = i

C14_Witness ==
    /\ pc = "interrupt" /\ raised.at = "for_j"
    /\ Len(rollout) \in 1..(rollout_limit - 1) /\ ~env.done
    /\ i = 1 /\ theta = 1 /\ Len(losses) = 1

\* C15: an exception other than KeyboardInterrupt raised by the
\* environment or the policy during a training or validation step is not
\* caught and not retried: the cell ends at that point with the error, and
\* neither 'done' nor 'interrupt' is reported.
C15_ErrorsPropagate ==
    /\ [](raised.exc \notin {"none", "KeyboardInterrupt"} <=> pc = "error")
    /\ [][/\ (raised'.exc = "RuntimeError" /\ raised.exc = "none") =>
               (pc \in Calling /\ raised'.at = pc /\ pc' = "error")
          /\ pc = "error" => NothingRuns /\ raised' = raised]_vars

C15_Witness ==
    /\ pc = "error" /\ raised.exc = "RuntimeError" /\ raised.at = "val_step"
    /\ reward >= 1

\* Positions of a training rollout and of a validation phase.
RolloutPcs == {"reset", "for_j", "act", "step"}

ValPcs == {"val_for", "val_reset", "val_for_j", "val_act", "val_step",
           "val_end"}

\* C16: the sampling mode is fixed by the phase: in a training rollout the
\* action is drawn from the policy's distribution (every action can come
\* out, not only the arg-max one), in a validation episode the action is
\* the arg-max action of the current parameters, and neither mode is
\* carried over into the other phase.
C16_ModeByPhase ==
    /\ pc = "act" => \A x \in Actions : ENABLED (Act /\ a' = x)
    /\ pc = "step" => mode = "sample"
    /\ pc = "val_step" => mode = "argmax" /\ a = Argmax(theta, s)

C16_Witness ==
    /\ pc = "step" /\ mode = "sample" /\ a # Argmax(theta, s)
    /\ stats.phases >= 1 /\ stats.episodes = NumValEpisodes

\* C17: a validation phase runs after training iteration k (counted from
\* 1) exactly when k is a multiple of val_freq, after that iteration's
\* gradient update and bookkeeping, and consists of exactly 10 episodes; a
\* complete run contains floor(num_episodes / val_freq) phases.
C17_ValidationSchedule ==
    /\ pc \in ValPcs =>
          /\ (i + 1) % val_freq = 0
          /\ stats.phases = (i + 1) \div val_freq
          /\ theta = i + 1
          /\ Len(training_rewards) = i + 1 /\ Len(losses) = i + 1
          /\ stats.episodes =
                NumValEpisodes * (stats.phases - 1) + v
                   + (IF pc \in {"val_for", "val_reset"} THEN 0 ELSE 1)
          /\ v <= NumValEpisodes
    /\ pc \in {"for_i", "done"} \cup RolloutPcs \cup AfterRollout =>
          /\ stats.phases = i \div val_freq
          /\ stats.episodes = NumValEpisodes * stats.phases
    /\ pc = "done" =>
          /\ stats.phases = num_episodes \div val_freq
          /\ stats.phases >= 1 => Len(validation_rewards) = NumValEpisodes

C17_Witness ==
    /\ pc = "done"
    /\ stats.phases = num_episodes \div val_freq /\ stats.phases >= 1
    /\ stats.episodes = NumValEpisodes * stats.phases

\* C18: within an iteration the steps happen strictly in the order reset,
\* whole rollout, computation of the returns, one gradient update,
\* recording of the metrics: the environment is stepped only before the
\* iteration's returns are computed, the returns are computed only on the
\* complete rollout, the parameters are updated only after that, and the
\* metrics are recorded only after the update.
C18_StrictOrder ==
    [][/\ (pc \in RolloutPcs /\ env' # env) =>
             (calls = i /\ theta = i /\ Len(training_rewards) = i)
       /\ (pc = "step" /\ env' # env) => Len(rollout) = env.t
       /\ calls' # calls =>
             /\ calls = i /\ theta = i /\ calls' = i + 1
             /\ Len(rollout) = env.t /\ env.t >= 1
             /\ env.done \/ Len(rollout) = rollout_limit
       /\ theta' # theta =>
             /\ calls = i + 1 /\ theta = i /\ theta' = i + 1
             /\ Len(training_rewards) = i /\ Len(losses) = i
             /\ env' = env
       /\ (pc # "try" /\ training_rewards' # training_rewards) =>
             (theta = i + 1 /\ Len(training_rewards) = i /\ Len(losses) = i)
       /\ (pc # "try" /\ losses' # losses) =>
             (theta = i + 1 /\ Len(training_rewards) = i + 1
                /\ Len(losses) = i)]_vars

C18_Witness ==
    /\ pc = "val_if" /\ i = 1
    /\ calls = 2 /\ theta = 2 /\ Len(training_rewards) = 2 /\ Len(losses) = 2
    /\ Len(rollout) >= 2

\* C19: the policy parameters are changed only by the optimizer step, once
\* per completed iteration: they stay as they are during a training
\* rollout, during the computation of the returns and during every
\* validation phase.
C19_ParametersFrame ==
    /\ [](pc \in {"for_i", "done"} \cup RolloutPcs \cup {"batch"} => theta = i)
    /\ [](pc \in ValPcs => theta = i + 1)
    /\ [][/\ theta' # theta => (pc = "update" /\ theta' = theta + 1)
          /\ pc \in RolloutPcs \cup {"batch"} \cup ValPcs =>
                theta' = theta]_vars

C19_Witness ==
    /\ pc = "val_step" /\ theta = val_freq /\ v >= 1
    /\ a = Argmax(val_freq, s)

\* C20: the rollout consumed by a gradient update was created empty at the
\* start of its iteration and holds, in step order, one triple per
\* environment step of the iteration: the state the action was chosen in,
\* the action, and the reward that step returned; no triple of an earlier
\* iteration or of a validation episode is in it.
C20_RolloutFresh ==
    /\ [](pc = "reset" => rollout = <<>>)
    /\ [](pc \in {"for_j", "act", "step", "batch", "update"} =>
             rollout = env.trace)
    /\ [](pc \in {"book", "book_loss", "val_if"} =>
             /\ Len(loss.terms) = Len(env.trace)
             /\ \A t \in 1..Len(env.trace) :
                    /\ loss.terms[t][1] = env.trace[t][1]
                    /\ loss.terms[t][2] = env.trace[t][2]
             /\ heap[rewards] = [t \in 1..Len(env.trace) |->
                                    float(env.trace[t][3])])
    /\ [][(pc \in ValPcs) => (rollout' = rollout)]_vars

C20_Witness ==
    /\ pc = "update" /\ i = val_freq /\ stats.phases >= 1
    /\ Len(rollout) >= 2 /\ rollout = env.trace
    /\ rollout[1][1] # rollout[2][1]

\* The sum of the returns G[t] over the timesteps t <= k of the iteration at
\* which the policy with parameters th gave probability p to the action
\* taken in the state visited, both read from the environment's record.
RECURSIVE ReturnMass(_, _, _)
ReturnMass(th, p, k) ==
    IF k = 0 THEN Zero
    ELSE RatAdd(ReturnMass(th, p, k - 1),
                IF Prob(th, env.trace[k][1], env.trace[k][2]) = p
                THEN G[k] ELSE Zero)

\* C21: the loss of an iteration is the negative mean over the timesteps t
\* of the rollout of log(p_t) * G[t], with p_t the probability the policy
\* assigns in the state visited at t to the action taken at t and G[t] the
\* return at the same t; it has one term per timestep.  (The mean times
\* the number of timesteps is compared with the sum, per value of p_t.)
C21_LossFormula ==
    pc \in {"book", "book_loss", "val_if"} =>
        /\ Len(loss.terms) = Len(env.trace) /\ Len(G) = Len(env.trace)
        /\ \A t \in 1..Len(env.trace) :
               loss.terms[t] = <<env.trace[t][1], env.trace[t][2], G[t]>>
        /\ \A p \in ProbVals :
               RatMul(float(Len(env.trace)), loss.value[p]) =
                  RatMul(float(-1),
                         ReturnMass(loss.theta, p, Len(env.trace)))

C21_Witness ==
    /\ pc = "book" /\ Len(rollout) >= 2 /\ discount_factor = Half
    /\ \A p \in ProbVals : loss.value[p] # Zero
    /\ loss.value[<<1, 3>>] # loss.value[<<2, 3>>]

\* The sum of the rewards of the first k steps since the last reset.
RECURSIVE RewardTotal(_)
RewardTotal(k) ==
    IF k = 0 THEN 0 ELSE RewardTotal(k - 1) + env.trace[k][3]

\* C22: each completed iteration appends one entry to training_rewards and
\* one to losses; the training_rewards entry is the undiscounted sum of the
\* rewards of the iteration's rollout whatever the discount factor is, and
\* it is the return G[0] when the discount factor is 1.
C22_Bookkeeping ==
    /\ [](pc \in {"for_i", "done"} \cup RolloutPcs \cup {"batch", "update"} =>
             /\ Len(training_rewards) = i /\ Len(losses) = i)
    /\ [](pc \in {"val_if"} \cup ValPcs =>
             /\ Len(training_rewards) = i + 1 /\ Len(losses) = i + 1)
    /\ [](pc = "val_if" =>
             /\ training_rewards[i + 1] = float(RewardTotal(Len(env.trace)))
             /\ Len(env.trace) = Len(rollout)
             /\ discount_factor = One => training_rewards[i + 1] = G[1])
    /\ [][/\ (pc = "book") =>
               (training_rewards' = training_rewards \/
                  Len(training_rewards') = Len(training_rewards) + 1)
          /\ (pc = "book_loss") =>
               (losses' = losses \/ Len(losses') = Len(losses) + 1)
          /\ (pc \notin {"try", "book"}) =>
               (training_rewards' = training_rewards)
          /\ (pc \notin {"try", "book_loss"}) => (losses' = losses)]_vars

C22_Witness ==
    /\ pc = "val_if" /\ i = 1 /\ discount_factor = Half
    /\ Len(training_rewards) = 2 /\ Len(losses) = 2
    /\ training_rewards[2] # G[1] /\ training_rewards[2] # Zero

\* C23: with rollout_limit >= 1 the training loop calls compute_returns
\* only with a non-empty reward sequence: the rollout has at least one
\* triple at the call, because the triple is appended before the done flag
\* is tested, also when done is signalled on the first step.
C23_NonEmptyCall ==
    /\ [](raised.exc # "IndexError")
    /\ [](pc = "batch" => Len(rollout) >= 1)
    /\ [][calls' # calls =>
             /\ rollout_limit >= 1 /\ Len(rollout) >= 1
             /\ last'.kind = "train" /\ last'.exc = "none"
             /\ Len(last'.entry) = Len(rollout)]_vars

C23_Witness ==
    /\ pc = "update" /\ last.kind = "train" /\ last.exc = "none"
    /\ env.doneAt = 1 /\ Len(last.entry) = 1 /\ Len(rollout) = 1

\* C24: every training rollout and every validation episode begins with
\* an environment reset, and the environment is never stepped after it
\* has signalled done without a reset in between, also in the first
\* training rollout after a validation phase.
C24_ResetFirst ==
    /\ [](pc \in {"act", "step"} =>
             /\ ~env.done /\ env.t = j /\ s = env.s)
    /\ [](pc \in {"val_act", "val_step"} =>
             /\ ~env.done /\ env.t = vj /\ s = env.s)
    /\ [](pc \in {"for_j", "val_for_j"} /\ env.t = 0 => env.s = env.start)
    /\ [][env' # env =>
             \/ pc \in {"reset", "val_reset"} /\ env' = EnvReset(env)
             \/ /\ pc \in {"step", "val_step"} /\ ~env.done
                /\ env'.t = env.t + 1]_vars

C24_Witness ==
    /\ pc = "step" /\ j = 0 /\ env.t = 0 /\ ~env.done
    /\ i = val_freq /\ stats.phases >= 1
    /\ stats.episodes = NumValEpisodes * stats.phases

\* C25 as stated: whenever the training loop has exited, through 'done' or
\* through 'interrupt', training_rewards and losses have the same length,
\* and that length is the number of gradient updates applied to the policy.
C25_AsStated ==
    pc \in {"done", "interrupt"} =>
        /\ Len(training_rewards) = Len(losses)
        /\ Len(losses) = theta

\* C25: after an exit through 'done' training_rewards and losses have the
\* same length, the number of gradient updates applied, num_episodes.
\* After an exit through 'interrupt' the same holds unless the interrupt
\* arrived after the optimizer step of an iteration and before its second
\* append: then losses is at most as long as training_rewards, which is at
\* most as long as the number of updates, which exceeds the length of
\* losses by one.
C25_LengthsAtExit ==
    /\ pc = "done" =>
          /\ Len(training_rewards) = Len(losses)
          /\ Len(losses) = theta /\ theta = num_episodes
    /\ pc = "interrupt" /\ raised.at \notin {"book", "book_loss"} =>
          /\ Len(training_rewards) = Len(losses)
          /\ Len(losses) = theta
    /\ pc = "interrupt" /\ raised.at \in {"book", "book_loss"} =>
          /\ Len(losses) <= Len(training_rewards)
          /\ Len(training_rewards) <= theta
          /\ theta = Len(losses) + 1

C25_Witness ==
    /\ pc = "interrupt" /\ raised.at = "book_loss" /\ i = 1
    /\ Len(training_rewards) = 2 /\ Len(losses) = 1 /\ theta = 2

\* C26: called with an empty reward sequence compute_returns returns
\* neither an empty sequence nor any other value: it raises IndexError at
\* the assignment of the last element, before the backward loop is
\* entered, and the name `returns` is not bound anew.  No other call
\* raises.
C26_EmptyRaises ==
    [][calls' # calls =>
         /\ (Len(last'.entry) = 0) <=> (last'.exc = "IndexError")
         /\ last'.exc \in {"none", "IndexError"}
         /\ (Len(last'.entry) = 0) =>
               /\ last'.ref = 0 /\ last'.iters = 0
               /\ returns' = returns
               /\ last'.argAfter = <<>>]_vars

C26_Witness ==
    /\ Called /\ N = 0 /\ last.exc = "IndexError" /\ last.kind = "other"
    /\ calls >= 2 /\ returns \in DOMAIN heap /\ Len(heap[returns]) >= 1

\* x <= y for fractions with positive denominators.
RatLeq(x, y) == x[1] * y[2] <= y[1] * x[2]

\* R[t] + ... + R[N], the rewards from t on.
RECURSIVE TailSum(_)
TailSum(t) == IF t > N THEN Zero ELSE RatAdd(R[t], TailSum(t + 1))

\* C27: for a reward sequence of non-negative elements and a discount
\* factor in [0, 1] every return lies between its own reward and the sum
\* of the rewards from its timestep on, and with discount factor 1 the
\* returns do not increase with t.
C27_Bounds ==
    (/\ Returned
     /\ \A t \in 1..N : RatLeq(Zero, R[t])
     /\ RatLeq(Zero, gamma) /\ RatLeq(gamma, One)) =>
        /\ \A t \in 1..N : RatLeq(R[t], G[t]) /\ RatLeq(G[t], TailSum(t))
        /\ gamma = One => \A t \in 1..(N - 1) : RatLeq(G[t + 1], G[t])

C27_Witness ==
    /\ Returned /\ N >= 3 /\ gamma = NineTenths
    /\ \A t \in 1..N : RatLeq(Zero, R[t])
    /\ R[1] # G[1] /\ G[1] # TailSum(1)
    /\ RatLeq(R[1], G[1]) /\ RatLeq(G[1], TailSum(1))

====
